---- MODULE Spec2Model ----
(***************************************************************************)
(* Model of src/Hello.py, the "Data Explorer" Streamlit script.            *)
(*                                                                         *)
(* The script is re-run top to bottom on every user interaction (one       *)
(* "render pass").  The model follows one pass statement group by          *)
(* statement group (pc), keeps the widget state and the two ttl caches     *)
(* across passes, and lets the clock advance and the database change at    *)
(* any moment.  Every database query may fail.                             *)
(***************************************************************************)
EXTENDS Integers, Sequences, FiniteSets, TLC

\* ------------------------------------------------------------------ bounds
MaxTime == 600          \* the clock stops advancing here
TickStep == 200         \* granularity of the clock
MaxMutations == 1       \* number of changes other clients make to the database
MaxPasses == 3          \* number of user interactions after the first run

\* ------------------------------------------------------- program constants
TTL == 300              \* @st.cache_data(ttl=300)
ROW_LIMIT == 1000       \* LIMIT 1000 of the table fetch query
PREVIEW_LIMIT == 10     \* LIMIT 10 of the default ad-hoc query
PG_SCHEMA == "mart"

BROWSE == "Browse Tables"
QUERY == "Run SQL Query"
Modes == {BROWSE, QUERY}

\* ---------------------------------------------------------------- database
\* The tables that may exist in the schema, in the order ORDER BY table_name
\* gives them (code point order: upper case before lower case).
NameOrder == <<"Customers", "dim_customer", "orders">>
TableNames == {NameOrder[i] : i \in DOMAIN NameOrder}

\* The characters of a name, for str.lower() and the substring test.
CharsOf(s) ==
  CASE s = "Customers"    -> <<"C","u","s","t","o","m","e","r","s">>
    [] s = "dim_customer" -> <<"d","i","m","_","c","u","s","t","o","m","e","r">>
    [] s = "orders"       -> <<"o","r","d","e","r","s">>
    [] s = "customer"     -> <<"c","u","s","t","o","m","e","r">>
    [] OTHER              -> <<>>

LowerChar(c) ==
  CASE c = "C" -> "c" [] c = "D" -> "d" [] c = "O" -> "o"
    [] OTHER -> c

\* str.lower()
Lower(cs) == [i \in DOMAIN cs |-> LowerChar(cs[i])]

\* pat in s, on character sequences
IsSubstring(pat, cs) ==
  \E i \in 1..(Len(cs) - Len(pat) + 1) : SubSeq(cs, i, i + Len(pat) - 1) = pat

Col(n, num) == [name |-> n, numeric |-> num]

\* The columns of each table (the schema is fixed; pandas gives a numeric
\* dtype to integer columns and object to text columns).
ColumnsOf(t) ==
  CASE t = "Customers"    -> <<Col("id", TRUE), Col("name", FALSE)>>
    [] t = "dim_customer" -> <<Col("customer_key", FALSE), Col("name", FALSE)>>
    [] t = "orders"       -> <<Col("id", TRUE), Col("note", FALSE),
                                Col("customer_id", TRUE), Col("amount", TRUE)>>
    [] OTHER              -> <<>>

Sizes == {1, 1001}

Min(a, b) == IF a < b THEN a ELSE b
Range(s) == {s[i] : i \in DOMAIN s}

\* ------------------------------------------------------------------- values
NONE == "<none>"
DEFAULT == "<default>"

\* A DataFrame: its columns, its number of rows, the version of the data it
\* was read from and the time it was read at.
DataFrame(cols, n, v, t) == [cols |-> cols, nrows |-> n, ver |-> v, asof |-> t]
NoDf == DataFrame(<<>>, 0, 0, -1)

\* A query sent to the database.
Query(kind, txt, table, limit) ==
  [kind |-> kind, text |-> txt, schema |-> PG_SCHEMA, table |-> table,
   limit |-> limit]

\* The free texts the user types into the text area.
UserTexts == {"not valid sql"}

\* An entry of the log of the queries of a run: the query and whether the
\* database answered it.
Sent(q, ok) == [query |-> q, ok |-> ok]

Out(kind, a, b, n) == [kind |-> kind, a |-> a, b |-> b, n |-> n]

VARIABLES
  now,            \* the clock
  catalog,        \* the tables of schema mart
  rows,           \* rows[t]: number of rows of table t
  ver,            \* ver[t]: version of the content of table t
  nMut,           \* changes made to the database so far
  cacheTables,    \* st.cache_data of get_tables, keyed by schema
  cacheLoad,      \* st.cache_data of load_table, keyed by table name
  mode,           \* the radio's value
  selWidget,      \* the selectbox's state
  sqlWidget,      \* the text area's state
  run_query,      \* the button: TRUE in the pass its press triggers
  pc,             \* position of the script in the current pass
  tables,         \* script variable tables
  selected_table, \* script variable selected_table
  sql_input,      \* script variable sql_input
  df,             \* script variable df
  rendered,       \* what the current pass has put on the page
  queries,        \* the queries the current pass has sent to the database
  crashed,        \* the current pass ended with an uncaught exception
  nPass,          \* user interactions so far
  histTables,     \* history: last database outcome per schema
  histLoad,       \* history: last database outcome per table
  lastList,       \* history: the latest get_tables call
  lastLoad        \* history: the latest load_table call

dbVars == <<catalog, rows, ver, nMut>>
cacheVars == <<cacheTables, cacheLoad>>
widgetVars == <<mode, selWidget, sqlWidget, run_query>>
passVars == <<pc, tables, selected_table, sql_input, df, rendered, queries, crashed>>
histVars == <<histTables, histLoad, lastList, lastLoad>>
vars == <<now, dbVars, cacheVars, widgetVars, passVars, nPass, histVars>>

\* ------------------------------------------------------ the database engine
\* information_schema.tables of the schema, ORDER BY table_name
CatalogRows == SelectSeq(NameOrder, LAMBDA t : t \in catalog)

\* The literal statements among the user's texts and what they return.
LiteralOk(txt) == txt = "SELECT 1;"

LiteralCols(txt) ==
  CASE txt = "SELECT 1;" -> <<Col("?column?", TRUE)>>
    [] OTHER -> <<>>

\* Does the database answer q?  up: the connection and the server work.
ExecOk(q, up) ==
  /\ up
  /\ CASE q.kind = "catalog" -> TRUE
       [] q.kind = "fetch"   -> q.table \in catalog
       [] q.kind = "agg"     -> q.table \in catalog
       [] q.kind = "adhoc"   -> IF q.table # "" THEN q.table \in catalog
                                ELSE LiteralOk(q.text)
       [] OTHER              -> FALSE

Limited(n, limit) == IF limit > 0 THEN Min(n, limit) ELSE n

\* The result set of q as pandas.read_sql returns it.
ExecDf(q) ==
  CASE q.kind \in {"fetch", "adhoc"} /\ q.table # "" ->
         DataFrame(ColumnsOf(q.table), Limited(rows[q.table], q.limit),
                   ver[q.table], now)
    [] q.kind = "agg" ->
         DataFrame(<<Col("customer_id", TRUE), Col("orders_count", TRUE)>>,
                   Limited(rows[q.table], q.limit), ver[q.table], now)
    [] OTHER -> DataFrame(LiteralCols(q.text), 1, 0, now)

\* ------------------------------------------------------------ st.cache_data
Entry(v, t) == [present |-> TRUE, value |-> v, created |-> t]
TableList(names, t) == [names |-> names, asof |-> t]
NoList == TableList(<<>>, -1)
NoEntryT == [present |-> FALSE, value |-> NoList, created |-> -1]
NoEntryL == [present |-> FALSE, value |-> NoDf, created |-> -1]

\* Mutant of Fresh: the decorator without ttl, an entry never expires.
FreshWithoutTtl(e) == e.present

\* An entry is served while it is younger than ttl.
Fresh(e) == e.present /\ now - e.created < TTL

\* @st.cache_data(ttl=300) on get_tables: is the call served from the cache?
GetTablesCached(e) == Fresh(e)

\* Mutant of LoadTableCached: load_table without the decorator.
LoadTableUndecorated(e) == FALSE

\* @st.cache_data(ttl=300) on load_table: is the call served from the cache?
LoadTableCached(e) == Fresh(e)

\* Mutant of CacheAfter: the wrapped function swallows the failure and its
\* empty return value is stored.
CacheAfterStoringFailure(cache, k, ok, v) == [cache EXCEPT ![k] = Entry(v, now)]

\* The cache after the wrapped function ran: its return value is stored;
\* an exception stores nothing.
CacheAfter(cache, k, ok, v) ==
  IF ok THEN [cache EXCEPT ![k] = Entry(v, now)] ELSE cache

\* ------------------------------------------------------------ the queries
\* get_tables: the catalog query with parameter :schema
CatalogQuery(schema) == [Query("catalog", "", "", 0) EXCEPT !.schema = schema]

\* Mutant of LoadTableQuery: the statement without its LIMIT.
LoadTableQueryUnlimited(table_name) == Query("fetch", "", table_name, 0)

\* load_table: SELECT * FROM "mart"."<table_name>" LIMIT 1000;
LoadTableQuery(table_name) == Query("fetch", "", table_name, ROW_LIMIT)

\* SELECT customer_id, COUNT(*) ... FROM "mart"."orders" GROUP BY customer_id;
OrdersQuery == Query("agg", "", "orders", 0)

\* default_query
DefaultQuery(ts) ==
  IF ts # <<>> THEN Query("adhoc", "", ts[1], PREVIEW_LIMIT)
  ELSE Query("adhoc", "SELECT 1;", "", 0)

\* text(sql_input) for a text the user typed
UserQuery(txt) == Query("adhoc", txt, "", 0)

\* ------------------------------------------------------------- the widgets
\* Mutant of SelectboxValue: the stored choice is kept although the options
\* changed.
SelectboxValueStale(w, options) ==
  IF w.value # NONE THEN w.value
  ELSE IF options = <<>> THEN NONE ELSE options[1]

\* st.sidebar.selectbox(label, tables): the stored choice while the options
\* are the ones it was made from, else the first option; None without options.
SelectboxValue(w, options) ==
  IF options = <<>> THEN NONE
  ELSE IF w.options = options /\ w.value # NONE THEN w.value
  ELSE options[1]

\* st.text_area(label, value=default_query): the user's text while the default
\* is the one it replaced, else the default.
TextAreaValue(w, default) ==
  IF w.text # DEFAULT /\ w.base = default THEN UserQuery(w.text) ELSE default

\* df.select_dtypes(include='number').columns.tolist()
NumericCols(d) ==
  LET s == SelectSeq(d.cols, LAMBDA c : c.numeric)
  IN  [i \in DOMAIN s |-> s[i].name]

\* "customer" in selected_table.lower()
NameHasCustomer(t) == IsSubstring(CharsOf("customer"), Lower(CharsOf(t)))

\* "id" in df.columns
HasIdColumn(d) == \E i \in DOMAIN d.cols : d.cols[i].name = "id"

\* "orders" in tables
OrdersListed(ts) == "orders" \in Range(ts)

\* ------------------------------------------------------------- the history
\* Kept beside the program state to state properties of whole runs: per key
\* the last result the database gave and whether the last call failed, and a
\* record of the latest call of each memoized function.
Hist(fetched, t, content, failed) ==
  [fetched |-> fetched, time |-> t, content |-> content, failed |-> failed]

HistAfter(h, k, queried, ok, content) ==
  IF ~queried THEN [h EXCEPT ![k].failed = FALSE]
  ELSE IF ok THEN [h EXCEPT ![k] = Hist(TRUE, now, content, FALSE)]
  ELSE [h EXCEPT ![k].failed = TRUE]

Call(key, ok, queried, content, h, dbver) ==
  [called |-> TRUE, key |-> key, time |-> now, ok |-> ok, queried |-> queried,
   content |-> content,
   sincePrev |-> IF h.fetched THEN now - h.time ELSE -1,
   prevContent |-> h.content, prevFailed |-> h.failed, dbver |-> dbver]

NoCallT == [Call("", FALSE, FALSE, NoList, Hist(FALSE, -1, NoList, FALSE), <<>>)
              EXCEPT !.called = FALSE, !.time = -1]
NoCallL == [Call("", FALSE, FALSE, NoDf, Hist(FALSE, -1, NoDf, FALSE), 0)
              EXCEPT !.called = FALSE, !.time = -1]

\* --------------------------------------------------------------------- Init
Init ==
  /\ now = 0
  /\ catalog \in {{}, TableNames}
  /\ rows = [t \in TableNames |-> IF t \in catalog THEN 1001 ELSE 0]
  /\ ver = [t \in TableNames |-> 0]
  /\ nMut = 0
  /\ cacheTables = [s \in {PG_SCHEMA} |-> NoEntryT]
  /\ cacheLoad = [t \in TableNames |-> NoEntryL]
  /\ mode = BROWSE
  /\ selWidget = [value |-> NONE, options |-> <<>>]
  /\ sqlWidget = [text |-> DEFAULT, base |-> DefaultQuery(<<>>)]
  /\ run_query = FALSE
  /\ pc = "get_tables"
  /\ tables = <<>>
  /\ selected_table = NONE
  /\ sql_input = DefaultQuery(<<>>)
  /\ df = NoDf
  /\ rendered = {}
  /\ queries = {}
  /\ crashed = FALSE
  /\ nPass = 0
  /\ histTables = [s \in {PG_SCHEMA} |-> Hist(FALSE, -1, NoList, FALSE)]
  /\ histLoad = [t \in TableNames |-> Hist(FALSE, -1, NoDf, FALSE)]
  /\ lastList = NoCallT
  /\ lastLoad = NoCallL

\* -------------------------------------------------------- the environment
\* A run of the script is short against the ttl and against the time the user
\* takes between two interactions: the clock advances and other clients
\* change the database between runs.  A query that meets a database that
\* went away during a run is the failing query of that run (up = FALSE).
\* Time passes.
Tick ==
  /\ now + TickStep <= MaxTime
  /\ pc = "idle"
  /\ now' = now + TickStep
  /\ UNCHANGED <<nPass, dbVars, cacheVars, widgetVars, passVars, histVars>>

\* Another client of the database creates a table.
CreateTable(t, n) ==
  /\ nMut < MaxMutations
  /\ pc = "idle"
  /\ t \notin catalog
  /\ catalog' = catalog \cup {t}
  /\ rows' = [rows EXCEPT ![t] = n]
  /\ nMut' = nMut + 1
  /\ ver' = [ver EXCEPT ![t] = nMut']
  /\ UNCHANGED <<nPass, now, cacheVars, widgetVars, passVars, histVars>>

\* Another client drops a table.
DropTable(t) ==
  /\ nMut < MaxMutations
  /\ pc = "idle"
  /\ t \in catalog
  /\ catalog' = catalog \ {t}
  /\ rows' = [rows EXCEPT ![t] = 0]
  /\ nMut' = nMut + 1
  /\ ver' = [ver EXCEPT ![t] = nMut']
  /\ UNCHANGED <<nPass, now, cacheVars, widgetVars, passVars, histVars>>

\* Another client inserts, deletes or updates rows of a table.
WriteTable(t, n) ==
  /\ nMut < MaxMutations
  /\ pc = "idle"
  /\ t \in catalog
  /\ n # rows[t]
  /\ rows' = [rows EXCEPT ![t] = n]
  /\ nMut' = nMut + 1
  /\ ver' = [ver EXCEPT ![t] = nMut']
  /\ UNCHANGED <<nPass, now, catalog, cacheVars, widgetVars, passVars, histVars>>

\* ------------------------------------------------------- user interactions
\* Every interaction starts a new run of the script.
Shown(kind) == \E o \in rendered : o.kind = kind

StartPass ==
  /\ pc = "idle"
  /\ nPass < MaxPasses
  /\ nPass' = nPass + 1
  /\ pc' = "get_tables"
  /\ tables' = <<>>
  /\ selected_table' = NONE
  /\ sql_input' = DefaultQuery(<<>>)
  /\ df' = NoDf
  /\ rendered' = {}
  /\ queries' = {}
  /\ crashed' = FALSE
  /\ lastList' = NoCallT
  /\ lastLoad' = NoCallL
  /\ UNCHANGED <<now, dbVars, cacheVars, histTables, histLoad>>

\* The user asks for a rerun.
Rerun ==
  /\ StartPass
  /\ run_query' = FALSE
  /\ UNCHANGED <<mode, selWidget, sqlWidget>>

\* The user picks a view in the radio.
SelectMode(m) ==
  /\ StartPass
  /\ Shown("radio")
  /\ m # mode
  /\ mode' = m
  /\ run_query' = FALSE
  /\ UNCHANGED <<selWidget, sqlWidget>>

\* The user picks a table in the selectbox.
SelectTable(t) ==
  /\ StartPass
  /\ Shown("selectbox")
  /\ t \in Range(tables)
  /\ t # selWidget.value
  /\ selWidget' = [value |-> t, options |-> tables]
  /\ run_query' = FALSE
  /\ UNCHANGED <<mode, sqlWidget>>

\* The user types a text into the text area.
EditQuery(txt) ==
  /\ StartPass
  /\ Shown("text_area")
  /\ UserQuery(txt) # sql_input
  /\ sqlWidget' = [text |-> txt, base |-> DefaultQuery(tables)]
  /\ run_query' = FALSE
  /\ UNCHANGED <<mode, selWidget>>

\* The user presses Run Query.
PressRun ==
  /\ StartPass
  /\ Shown("button")
  /\ run_query' = TRUE
  /\ UNCHANGED <<mode, selWidget, sqlWidget>>

\* ----------------------------------------------------------- the script
\* An uncaught exception ends the run of the script.
Crash ==
  /\ crashed' = TRUE
  /\ pc' = "idle"

\* Mutant of Dispatch: the Browse branch runs in either mode.
DispatchAlwaysBrowse ==
  /\ rendered' = rendered \cup {Out("title", "", "", 0), Out("radio", mode, "", 0)}
  /\ pc' = "selectbox"

\* Lines 42-47 and the branch of line 52, once tables is bound.
Dispatch ==
  /\ rendered' = rendered \cup {Out("title", "", "", 0), Out("radio", mode, "", 0)}
  /\ pc' = IF mode = BROWSE THEN "selectbox" ELSE "query_form"

\* tables = get_tables(PG_SCHEMA), served from the cache.
GetTablesHit ==
  /\ pc = "get_tables"
  /\ GetTablesCached(cacheTables[PG_SCHEMA])
  /\ LET v == cacheTables[PG_SCHEMA].value
     IN  /\ tables' = v.names
         /\ lastList' = Call(PG_SCHEMA, TRUE, FALSE, v, histTables[PG_SCHEMA],
                             CatalogRows)
         /\ histTables' = HistAfter(histTables, PG_SCHEMA, FALSE, TRUE, v)
  /\ Dispatch
  /\ UNCHANGED <<nPass, now, dbVars, cacheVars, widgetVars, selected_table, sql_input,
                 df, queries, crashed, histLoad, lastLoad>>

\* tables = get_tables(PG_SCHEMA), running the catalog query.
GetTablesMiss(up) ==
  /\ pc = "get_tables"
  /\ ~GetTablesCached(cacheTables[PG_SCHEMA])
  /\ LET q == CatalogQuery(PG_SCHEMA)
         ok == ExecOk(q, up)
         v == IF ok THEN TableList(CatalogRows, now) ELSE NoList
     IN  /\ queries' = queries \cup {Sent(q, ok)}
         /\ cacheTables' = CacheAfter(cacheTables, PG_SCHEMA, ok, v)
         /\ lastList' = Call(PG_SCHEMA, ok, TRUE, v, histTables[PG_SCHEMA],
                             CatalogRows)
         /\ histTables' = HistAfter(histTables, PG_SCHEMA, TRUE, ok, v)
         /\ IF ok
            THEN /\ tables' = v.names
                 /\ Dispatch
                 /\ UNCHANGED crashed
            ELSE /\ Crash
                 /\ UNCHANGED <<tables, rendered>>
  /\ UNCHANGED <<nPass, now, dbVars, cacheLoad, widgetVars, selected_table, sql_input,
                 df, histLoad, lastLoad>>

\* Lines 53, 61 and 62: the selectbox and the subheader.
Selectbox ==
  /\ pc = "selectbox"
  /\ LET sel == SelectboxValue(selWidget, tables)
     IN  /\ selected_table' = sel
         /\ selWidget' = [value |-> sel, options |-> tables]
         /\ IF sel # NONE
            THEN /\ rendered' = rendered \cup
                       {Out("selectbox", sel, "", 0), Out("subheader", sel, "", 0)}
                 /\ pc' = "load_table"
            ELSE /\ rendered' = rendered \cup {Out("selectbox", sel, "", 0)}
                 /\ pc' = "idle"
  /\ UNCHANGED <<nPass, now, dbVars, cacheVars, mode, sqlWidget, run_query, tables,
                 sql_input, df, queries, crashed, histVars>>

\* Lines 64-72: the grid and the metrics of df.
BrowseOutput(d) ==
  {Out("dataframe", "", "", d.nrows), Out("total_rows", "", "", d.nrows)}
  \cup (IF NumericCols(d) # <<>> THEN {Out("numeric_summary", "", "", 0)} ELSE {})

\* df = load_table(selected_table), served from the cache.
LoadTableHit ==
  /\ pc = "load_table"
  /\ LoadTableCached(cacheLoad[selected_table])
  /\ LET v == cacheLoad[selected_table].value
     IN  /\ df' = v
         /\ rendered' = rendered \cup BrowseOutput(v)
         /\ lastLoad' = Call(selected_table, TRUE, FALSE, v,
                             histLoad[selected_table], ver[selected_table])
         /\ histLoad' = HistAfter(histLoad, selected_table, FALSE, TRUE, v)
  /\ pc' = "chart"
  /\ UNCHANGED <<nPass, now, dbVars, cacheVars, widgetVars, tables, selected_table,
                 sql_input, queries, crashed, histTables, lastList>>

\* df = load_table(selected_table), running the table fetch query.
LoadTableMiss(up) ==
  /\ pc = "load_table"
  /\ ~LoadTableCached(cacheLoad[selected_table])
  /\ LET q == LoadTableQuery(selected_table)
         ok == ExecOk(q, up)
         v == IF ok THEN ExecDf(q) ELSE NoDf
     IN  /\ queries' = queries \cup {Sent(q, ok)}
         /\ cacheLoad' = CacheAfter(cacheLoad, selected_table, ok, v)
         /\ lastLoad' = Call(selected_table, ok, TRUE, v,
                             histLoad[selected_table], ver[selected_table])
         /\ histLoad' = HistAfter(histLoad, selected_table, TRUE, ok, v)
         /\ IF ok
            THEN /\ df' = v
                 /\ rendered' = rendered \cup BrowseOutput(v)
                 /\ pc' = "chart"
                 /\ UNCHANGED crashed
            ELSE /\ Crash
                 /\ UNCHANGED <<df, rendered>>
  /\ UNCHANGED <<nPass, now, dbVars, cacheTables, widgetVars, tables, selected_table,
                 sql_input, histTables, lastList>>

\* Line 75
ChartCondition == NameHasCustomer(selected_table) /\ HasIdColumn(df)

\* Lines 75-77 when no aggregation query is sent.
ChartSkip ==
  /\ pc = "chart"
  /\ ~(ChartCondition /\ OrdersListed(tables))
  /\ rendered' = IF ChartCondition
                 THEN rendered \cup {Out("orders_heading", "", "", 0)}
                 ELSE rendered
  /\ pc' = "idle"
  /\ UNCHANGED <<nPass, now, dbVars, cacheVars, widgetVars, tables, selected_table,
                 sql_input, df, queries, crashed, histVars>>

\* Lines 75-88: the heading, the aggregation query and the bar chart.
ChartOrders(up) ==
  /\ pc = "chart"
  /\ ChartCondition /\ OrdersListed(tables)
  /\ queries' = queries \cup {Sent(OrdersQuery, ExecOk(OrdersQuery, up))}
  /\ IF ExecOk(OrdersQuery, up)
     THEN /\ rendered' = rendered \cup
                {Out("orders_heading", "", "", 0),
                 Out("orders_chart", "customer_id", "orders_count", 0)}
          /\ pc' = "idle"
          /\ UNCHANGED crashed
     ELSE /\ rendered' = rendered \cup {Out("orders_heading", "", "", 0)}
          /\ Crash
  /\ UNCHANGED <<nPass, now, dbVars, cacheVars, widgetVars, tables, selected_table,
                 sql_input, df, histVars>>

\* Lines 94-106: the text area and the button.
QueryForm ==
  /\ pc = "query_form"
  /\ LET default_query == DefaultQuery(tables)
         txt == TextAreaValue(sqlWidget, default_query)
     IN  /\ sql_input' = txt
         /\ sqlWidget' = IF txt = default_query /\ sqlWidget.base # default_query
                         THEN [text |-> DEFAULT, base |-> default_query]
                         ELSE [sqlWidget EXCEPT !.base = default_query]
  /\ rendered' = rendered \cup
        {Out("text_area", "", "", 0), Out("button", "", "", 0)}
  /\ pc' = IF run_query THEN "run_query" ELSE "idle"
  /\ UNCHANGED <<nPass, now, dbVars, cacheVars, mode, selWidget, run_query, tables,
                 selected_table, df, queries, crashed, histVars>>

\* Mutant of QuickChart: the first two columns instead of the first two
\* numeric columns.
QuickChartFirstColumns(d) ==
  LET numeric_cols == NumericCols(d)
  IN  IF numeric_cols = <<>> THEN {}
      ELSE {Out("quick_chart_heading", "", "", 0)} \cup
           (IF Len(numeric_cols) >= 2
            THEN {Out("scatter", d.cols[1].name, d.cols[2].name, 0)}
            ELSE {Out("info_add_columns", "", "", 0)})

\* Lines 116-123: the chart suggestion for a result.
QuickChart(d) ==
  LET numeric_cols == NumericCols(d)
  IN  IF numeric_cols = <<>> THEN {}
      ELSE {Out("quick_chart_heading", "", "", 0)} \cup
           (IF Len(numeric_cols) >= 2
            THEN {Out("scatter", numeric_cols[1], numeric_cols[2], 0)}
            ELSE {Out("info_add_columns", "", "", 0)})

\* Mutant of RunQuery: the query without the try block.
RunQueryWithoutTry(up) ==
  /\ pc = "run_query"
  /\ queries' = queries \cup {Sent(sql_input, ExecOk(sql_input, up))}
  /\ IF ExecOk(sql_input, up)
     THEN LET d == ExecDf(sql_input)
          IN  /\ df' = d
              /\ rendered' = rendered \cup
                    {Out("success", "", "", d.nrows),
                     Out("result_grid", "", "", d.nrows)} \cup QuickChart(d)
              /\ pc' = "idle"
              /\ UNCHANGED crashed
     ELSE /\ Crash
          /\ UNCHANGED <<df, rendered>>
  /\ UNCHANGED <<nPass, now, dbVars, cacheVars, widgetVars, tables, selected_table,
                 sql_input, histVars>>

\* Lines 108-125: the try block around the ad-hoc query.
RunQuery(up) ==
  /\ pc = "run_query"
  /\ queries' = queries \cup {Sent(sql_input, ExecOk(sql_input, up))}
  /\ IF ExecOk(sql_input, up)
     THEN LET d == ExecDf(sql_input)
          IN  /\ df' = d
              /\ rendered' = rendered \cup
                    {Out("success", "", "", d.nrows),
                     Out("result_grid", "", "", d.nrows)} \cup QuickChart(d)
     ELSE /\ rendered' = rendered \cup {Out("error", "", "", 0)}
          /\ UNCHANGED df
  /\ pc' = "idle"
  /\ UNCHANGED <<nPass, now, dbVars, cacheVars, widgetVars, tables, selected_table,
                 sql_input, crashed, histVars>>

\* --------------------------------------------------------------------- Next
Next ==
  \/ Tick
  \/ \E t \in TableNames, n \in Sizes : CreateTable(t, n)
  \/ \E t \in TableNames : DropTable(t)
  \/ \E t \in TableNames, n \in Sizes : WriteTable(t, n)
  \/ Rerun
  \/ \E m \in Modes : SelectMode(m)
  \/ \E t \in TableNames : SelectTable(t)
  \/ \E txt \in UserTexts : EditQuery(txt)
  \/ PressRun
  \/ GetTablesHit
  \/ \E up \in BOOLEAN : GetTablesMiss(up)
  \/ Selectbox
  \/ LoadTableHit
  \/ \E up \in BOOLEAN : LoadTableMiss(up)
  \/ ChartSkip
  \/ \E up \in BOOLEAN : ChartOrders(up)
  \/ QueryForm
  \/ \E up \in BOOLEAN : RunQuery(up)

Spec == Init /\ [][Next]_vars

\* ================================================================= claims
IsFetch(s) == s.query.kind = "fetch"
IsAgg(s) == s.query.kind = "agg"
IsAdhoc(s) == s.query.kind = "adhoc"
PassDone == pc = "idle"

\* The cache entry the latest call of a memoized function left for its key.
StoredByCall(c, cache) == cache[c.key] = Entry(c.content, c.time)

\* C1: for get_tables and load_table, no call returns a value read from the
\* database more than TTL ago; a call made when the last value read for its
\* key is older than TTL queries the database, and when the query succeeds
\* the key's entry is that query's result (the data the database holds at
\* the call) with the time of the call as creation time.
C1_ExpiredEntryNeverServed ==
  /\ lastList.called =>
       /\ lastList.ok => lastList.time - lastList.content.asof <= TTL
       /\ lastList.sincePrev > TTL => lastList.queried
       /\ lastList.queried /\ lastList.ok =>
            /\ lastList.content = TableList(lastList.dbver, lastList.time)
            /\ StoredByCall(lastList, cacheTables)
  /\ lastLoad.called =>
       /\ lastLoad.ok => lastLoad.time - lastLoad.content.asof <= TTL
       /\ lastLoad.sincePrev > TTL => lastLoad.queried
       /\ lastLoad.queried /\ lastLoad.ok =>
            /\ lastLoad.content.ver = lastLoad.dbver
            /\ lastLoad.content.asof = lastLoad.time
            /\ StoredByCall(lastLoad, cacheLoad)

\* C1 witness: a load_table call after expiry re-queried and replaced an entry
\* by a different result, in a run whose get_tables call re-queried too.
C1_Witness ==
  /\ lastLoad.called /\ lastLoad.sincePrev > TTL /\ lastLoad.queried /\ lastLoad.ok
  /\ lastLoad.prevContent.ver # lastLoad.content.ver
  /\ cacheLoad[lastLoad.key].created = lastLoad.time
  /\ lastList.called /\ lastList.sincePrev > TTL /\ lastList.queried /\ lastList.ok

\* C2: a load_table call made less than TTL after the last successful fetch
\* of the same table returns the content of that fetch and sends no query,
\* whatever happened to the table since; a call made more than TTL after it
\* sends the query again.
C2_OneRoundTripPerWindow ==
  lastLoad.called /\ lastLoad.sincePrev >= 0 =>
    /\ lastLoad.sincePrev < TTL =>
         /\ ~lastLoad.queried
         /\ lastLoad.ok
         /\ lastLoad.content = lastLoad.prevContent
         /\ ~\E s \in queries : IsFetch(s)
    /\ lastLoad.sincePrev > TTL =>
         /\ lastLoad.queried
         /\ \E s \in queries : IsFetch(s) /\ s.query.table = lastLoad.key

\* C2 witness: a call inside the window, after time has passed and the table
\* was modified, served the old content.
C2_Witness ==
  /\ lastLoad.called /\ ~lastLoad.queried
  /\ lastLoad.sincePrev > 0 /\ lastLoad.sincePrev < TTL
  /\ lastLoad.content.ver # ver[lastLoad.key]
  /\ lastLoad.content.nrows # Min(rows[lastLoad.key], ROW_LIMIT)

\* C3: every result of load_table, fetched or cached, has at most 1000 rows,
\* and so has the "Total rows" figure of Browse mode.
C3_RowCeiling ==
  /\ lastLoad.called /\ lastLoad.ok => lastLoad.content.nrows <= ROW_LIMIT
  /\ \A t \in TableNames : cacheLoad[t].present => cacheLoad[t].value.nrows <= ROW_LIMIT
  /\ \A o \in rendered : o.kind \in {"total_rows", "dataframe"} => o.n <= ROW_LIMIT

\* C3 witness: a table of more than 1000 rows is shown with 1000 rows, from
\* the cache.
C3_Witness ==
  /\ lastLoad.called /\ ~lastLoad.queried
  /\ rows[lastLoad.key] > ROW_LIMIT
  /\ Out("total_rows", "", "", ROW_LIMIT) \in rendered

\* C4: a run in Query mode that executed the ad-hoc query ends without an
\* uncaught exception and leaves the radio, the text area and the button on
\* the page; when the database failed the query, an error message is shown
\* and no success indicator, grid or chart; when it answered, the success
\* indicator and the grid carry the row count of the result.
C4_AdhocFailureIsCaught ==
  \A s \in queries : IsAdhoc(s) /\ PassDone =>
    /\ ~crashed
    /\ Shown("radio") /\ Shown("text_area") /\ Shown("button")
    /\ ~s.ok =>
         /\ Shown("error")
         /\ ~Shown("success") /\ ~Shown("result_grid")
         /\ ~Shown("scatter") /\ ~Shown("quick_chart_heading")
         /\ ~Shown("info_add_columns")
    /\ s.ok =>
         /\ ~Shown("error")
         /\ Out("success", "", "", df.nrows) \in rendered
         /\ Out("result_grid", "", "", df.nrows) \in rendered

\* C4 witness: the user's text was rejected by the database and the run ended
\* with the error message.
C4_Witness ==
  /\ PassDone /\ run_query /\ Shown("error")
  /\ Sent(UserQuery("not valid sql"), FALSE) \in queries

\* C5 (as claimed): no failing query ends the run with an uncaught exception;
\* each is shown as an error message.
C5_EveryFailureRecovered ==
  \A s \in queries : ~s.ok => ~crashed /\ (PassDone => Shown("error"))

\* C6 (as claimed), for the runs whose queries all succeeded: after the Browse
\* branch has shown a table, the aggregation query was sent and the chart
\* rendered exactly when the three conditions hold, and otherwise nothing of
\* the orders-per-customer section, heading included, is on the page.
C6_ChartIffThreeConditions ==
  PassDone /\ Shown("dataframe") /\ (\A s \in queries : s.ok) =>
    LET all3 == /\ NameHasCustomer(selected_table)
                /\ HasIdColumn(df)
                /\ OrdersListed(tables)
    IN  /\ (\E s \in queries : IsAgg(s)) <=> all3
        /\ Shown("orders_chart") <=> all3
        /\ ~all3 => ~Shown("orders_heading")

\* The numeric columns of a result, by position.
NumericAt(d) == {i \in DOMAIN d.cols : d.cols[i].numeric}
FirstOf(S) == CHOOSE i \in S : \A j \in S : i <= j

\* C7: after a successful ad-hoc query, a scatter chart is shown exactly when
\* the result has two numeric columns or more, over the first two of them in
\* column order; with one numeric column the information message and no
\* chart; with none, neither.
C7_ScatterNeedsTwoNumeric ==
  PassDone /\ Shown("success") =>
    LET N == NumericAt(df)
    IN  /\ Shown("scatter") <=> Cardinality(N) >= 2
        /\ Cardinality(N) >= 2 =>
             LET x == FirstOf(N)
                 y == FirstOf(N \ {x})
             IN  \A o \in rendered : o.kind = "scatter" =>
                   o.a = df.cols[x].name /\ o.b = df.cols[y].name
        /\ Shown("info_add_columns") <=> Cardinality(N) = 1
        /\ Cardinality(N) = 0 => ~Shown("quick_chart_heading")

\* C7 witness: a result whose second column is not numeric is charted over
\* its first and third column.
C7_Witness ==
  /\ PassDone /\ Shown("success")
  /\ Len(df.cols) >= 3 /\ ~df.cols[2].numeric
  /\ Out("scatter", df.cols[1].name, df.cols[3].name, 0) \in rendered

\* C8: every cache entry is the result of a query that succeeded (the last
\* one for its key) and a key without one has no entry, so a failing call
\* stores nothing and changes no entry; the call that follows a failed call
\* for the same key queries again.
C8_FailureStoresNothing ==
  /\ \A t \in TableNames :
       cacheLoad[t] = IF histLoad[t].fetched
                      THEN Entry(histLoad[t].content, histLoad[t].time)
                      ELSE NoEntryL
  /\ cacheTables[PG_SCHEMA] =
       IF histTables[PG_SCHEMA].fetched
       THEN Entry(histTables[PG_SCHEMA].content, histTables[PG_SCHEMA].time)
       ELSE NoEntryT
  /\ lastLoad.called /\ lastLoad.prevFailed => lastLoad.queried
  /\ lastList.called /\ lastList.prevFailed => lastList.queried
  /\ lastLoad.called /\ lastLoad.queried /\ ~lastLoad.ok =>
       ~(cacheLoad[lastLoad.key].present /\ cacheLoad[lastLoad.key].created = lastLoad.time)
  /\ lastList.called /\ lastList.queried /\ ~lastList.ok =>
       ~(cacheTables[PG_SCHEMA].present /\ cacheTables[PG_SCHEMA].created = lastList.time)

\* C8 witness: a table fetch failed while another table's entry is cached,
\* and in a later run the call for the same table queries again.
C8_Witness ==
  /\ lastLoad.called /\ lastLoad.prevFailed /\ lastLoad.queried /\ lastLoad.ok
  /\ \E t \in TableNames : t # lastLoad.key /\ cacheLoad[t].present

\* The step is the user picking a view: it starts a run from a page that shows
\* the radio, and it sends no query, touches no cache and takes no time.
ModeSelection ==
  /\ pc = "idle" /\ pc' = "get_tables"
  /\ Shown("radio")
  /\ queries' = {}
  /\ UNCHANGED <<now, dbVars, cacheVars>>

\* C9: the mode is Browse or Query and changes only when the user selects it;
\* a run in Browse mode sends no ad-hoc query, a run in Query mode sends no
\* table fetch and no aggregation query, and an ad-hoc query is sent only in a
\* run the button started.
C9_ModeAndPipelines ==
  /\ [](/\ mode \in Modes
        /\ mode = BROWSE => ~\E s \in queries : IsAdhoc(s)
        /\ mode = QUERY => ~\E s \in queries : IsFetch(s) \/ IsAgg(s)
        /\ (\E s \in queries : IsAdhoc(s)) => run_query)
  /\ [][mode' # mode => ModeSelection]_vars

\* C9 witness: in Query mode, a run the button started has sent the ad-hoc
\* query and it failed.
C9_Witness ==
  /\ mode = QUERY /\ PassDone /\ run_query
  /\ \E s \in queries : IsAdhoc(s) /\ ~s.ok
  /\ \E t \in TableNames : cacheLoad[t].present

\* C10: the table of every table fetch query of a run is an element of the
\* list get_tables returned in that run and is the selectbox's value; no text
\* of the text area is part of a table fetch or aggregation query.
C10_FetchedTableIsListed ==
  \A s \in queries :
    /\ IsFetch(s) =>
         /\ s.query.table \in Range(tables)
         /\ s.query.table = selected_table
         /\ s.query.text = ""
         /\ s.query.table \notin UserTexts \cup {sqlWidget.text}
    /\ IsAgg(s) =>
         /\ s.query.table = "orders" /\ "orders" \in Range(tables)
         /\ s.query.text = ""

\* C10 witness: a table fetch in a run whose list came from the cache, after
\* the user had typed a text into the text area.
C10_Witness ==
  /\ \E s \in queries : IsFetch(s)
  /\ lastList.called /\ ~lastList.queried
  /\ sqlWidget.text \in UserTexts

====
